---- MODULE Spec2Model ----
(***************************************************************************)
(* The edge-tracing core of vectortrace (src/utils/algo.ts):               *)
(* cannyEdgeDetection (grayscale, blur, Sobel gradients, non-maximum       *)
(* suppression, hysteresis) followed by vectoriseEdges (greedy walk,       *)
(* length filter, stride decimation).                                      *)
(*                                                                         *)
(* Number representation.  Every gray value is an integer 0..255, so the   *)
(* blurred value sum/16 is a multiple of 1/16 and the Sobel sums are too.  *)
(* The model keeps these fields multiplied by kSum (blurred[i] is the      *)
(* kernel sum before the division, sumX and sumY are 16 times the code's   *)
(* values) and keeps a magnitude m as (kSum*m)^2 = sumX^2 + sumY^2, an     *)
(* integer.  m >= q is then the comparison of the two squares and          *)
(* m >= threshold is (kSum*m)^2 >= (kSum*threshold)^2.  A direction        *)
(* atan2(sumY, sumX) is kept as the pair <<sumY, sumX>>; its sector is     *)
(* decided from the pair with tan(22.5 deg) = sqrt(2) - 1.                 *)
(***************************************************************************)
EXTENDS Integers, Sequences, FiniteSets, TLC

\* ---------------------------------------------------------------- bounds
\* largest image handed to cannyEdgeDetection
MaxW == 5
MaxH == 4
\* malformed image buffers carry up to MaxExtra surplus pixels (4 bytes each)
MaxExtra == 1
\* invocations of the pipeline in one run of the repeated-call specification
MaxCalls == 3
\* most snapshots kept in App's history in one run
MaxHistory == 4
\* most shapes on the editor canvas, and the ids they are given
MaxShapes == 2
\* the largest image area flooded by a propagation run in any order
FloodArea == 12
\* largest area (width * height) of an edge buffer handed to vectoriseEdges
\* with arbitrary content
MaxPixels == 8
\* malformed edge buffers lack up to MaxMissing trailing pixels
MaxMissing == 1
\* widest full row of edge pixels handed to vectoriseEdges
MaxRow == 22

\* threshold values offered to the caller (the sliders of TracerPanel give
\* low 0..100 and high 100..255; the function itself accepts any numbers)
Thresholds == {0, 100, 180}

\* ------------------------------------------------------------- constants
kernel == <<1, 2, 1, 2, 4, 2, 1, 2, 1>>
kSum == 16
gx == <<-1, 0, 1, -2, 0, 2, -1, 0, 1>>
gy == <<-1, -2, -1, 0, 0, 0, 1, 2, 1>>
\* traceMap values
NONE == 0
WEAK == 1
STRONG == 2
\* the initial value of q and r in the suppression loop
DefaultNeighbour == 255

Black == <<0, 0, 0, 255>>
White == <<255, 255, 255, 255>>

VARIABLES
    pc,             \* position in the pipeline
    width, height,  \* imageData.width, imageData.height
    data,           \* imageData.data, one <<R,G,B,A>> per pixel, from index 0
    lowThreshold, highThreshold,
    gray, blurred, magnitudes, directions, nms,
    traceMap, stack,
    edgeData,       \* cannyEdgeDetection's result: the edgeData of vectoriseEdges
    simplification, \* the simplification factor, in halves (3 is 1.5)
    minPathLength,  \* in halves as well (3 is 1.5)
    pixels,         \* the edge pixels in row-major order
    pIdx,           \* position of "for (const p of pixels)", from 1
    visited, path, walkStack, paths,
    rawPaths,       \* history: every completed walk's path, kept or dropped
    mapped,         \* paths.map(...), before .filter
    result,         \* the returned Point[][]
    calls,          \* history: <<arguments, returned PathSet, grayscale field,
                    \* edge buffer>> of each earlier invocation of the
                    \* pipeline, oldest first
    shapes,         \* App: the Shape[] on the editor canvas
    history,        \* App: the snapshots Shape[][], oldest first
    historyIndex,   \* App: the cursor into history, from 0
    isDirty,        \* EditorCanvas: isDirtyRef.current, a drag has moved a shape
    lastOp,         \* history: the handler of App called last
    discarded,      \* history: the snapshots the last addToHistory left out
                    \* of newHistory
    canvas          \* TracerPanel: <<width, height, pixels>> of canvasRef, <<>>
                    \* before an upload

appVars == <<shapes, history, historyIndex, isDirty, lastOp, discarded>>

uiVars == <<appVars, canvas>>

cannyVars == <<width, height, data, lowThreshold, highThreshold,
               gray, blurred, magnitudes, directions, nms, traceMap, stack>>

vecVars == <<simplification, minPathLength, pixels, pIdx, visited, path,
             walkStack, paths, rawPaths, mapped, result>>

\* --------------------------------------------------------------- helpers
Max(a, b) == IF a > b THEN a ELSE b
Abs(a) == IF a < 0 THEN -a ELSE a

XOf(i, w) == i % w
YOf(i, w) == i \div w

\* the loops "for y = 1; y < h-1" and "for x = 1; x < w-1"
Interior(i, w, h) ==
    /\ i < w * h
    /\ XOf(i, w) >= 1 /\ XOf(i, w) < w - 1
    /\ YOf(i, w) >= 1 /\ YOf(i, w) < h - 1

\* sum over the 3x3 neighbourhood of (x, y) of f * k, rows outer, columns inner
Conv(f, x, y, w, k) ==
    LET term(t) == f[(y + (t \div 3) - 1) * w + (x + (t % 3) - 1)] * k[t + 1]
    IN  term(0) + term(1) + term(2) + term(3) + term(4)
        + term(5) + term(6) + term(7) + term(8)

\* ------------------------------------------------------------ toGrayscale
\* the <<R, G, B>> the model uses whose luma is exactly x.5 and for which the
\* double-precision sum 0.299 R + 0.587 G + 0.114 B comes out just below x.5
\* (<<0, 36, 12>> gives 22.499999999999996), so that Math.round gives x
TiesRoundedDown == {<<0, 36, 12>>}

\* the same with the colour multiplied by alpha / 255 first
LumaPremultiplied(px) ==
    ((299 * px[1] + 587 * px[2] + 114 * px[3]) * px[4] + 127500) \div 255000

\* Math.round(0.299 R + 0.587 G + 0.114 B); alpha (px[4]) is not read
Luma(px) ==
    IF <<px[1], px[2], px[3]>> \in TiesRoundedDown
    THEN (299 * px[1] + 587 * px[2] + 114 * px[3]) \div 1000
    ELSE (299 * px[1] + 587 * px[2] + 114 * px[3] + 500) \div 1000

toGrayscale(d) == [i \in DOMAIN d |-> Luma(d[i])]

\* ----------------------------------------------------------- gaussianBlur
\* the same with the border pixels copied from the input instead of left 0
gaussianBlurCopyBorder(d, w, h) ==
    [i \in DOMAIN d |->
        IF Interior(i, w, h) THEN Conv(d, XOf(i, w), YOf(i, w), w, kernel)
        ELSE kSum * d[i]]

\* kSum times the code's output: only interior pixels are written
gaussianBlur(d, w, h) ==
    [i \in DOMAIN d |->
        IF Interior(i, w, h) THEN Conv(d, XOf(i, w), YOf(i, w), w, kernel) ELSE 0]

\* ------------------------------------------------- 1. gradient calculation
sumX(b, i, w) == Conv(b, XOf(i, w), YOf(i, w), w, gx)
sumY(b, i, w) == Conv(b, XOf(i, w), YOf(i, w), w, gy)

\* (kSum * sqrt(sumX^2 + sumY^2))^2
gradientMagnitudes(b, w, h) ==
    [i \in 0..(w * h - 1) |->
        IF Interior(i, w, h)
        THEN sumX(b, i, w) * sumX(b, i, w) + sumY(b, i, w) * sumY(b, i, w)
        ELSE 0]

\* the arguments of Math.atan2(sumY, sumX); <<0, 0>> is the angle 0
gradientDirections(b, w, h) ==
    [i \in 0..(w * h - 1) |->
        IF Interior(i, w, h) THEN <<sumY(b, i, w), sumX(b, i, w)>> ELSE <<0, 0>>]

\* --------------------------------------------- 2. non-maximum suppression
\* The angle a in degrees after "if (a < 0) a += 180", as the branch taken:
\* 0, 45, 90, 135, or -1 when no branch is taken.  The stored direction is a
\* Float32: atan2(0, negative) = pi is stored as 3.14159274..., above pi, so
\* a = 180.000005 > 180 and every branch is skipped.
Sector(dir) ==
    LET sy0 == dir[1]
        sx0 == dir[2]
        sy == IF sy0 < 0 THEN -sy0 ELSE sy0
        sx == IF sy0 < 0 THEN -sx0 ELSE sx0
        ax == Abs(sx)
    IN  IF sy = 0 THEN (IF sx >= 0 THEN 0 ELSE -1)
        ELSE IF (sy + ax) * (sy + ax) < 2 * sx * sx THEN 0
        ELSE IF sy > ax /\ (sy - ax) * (sy - ax) > 2 * sx * sx THEN 90
        ELSE IF sx > 0 THEN 45
        ELSE 135

DefaultSq == (kSum * DefaultNeighbour) * (kSum * DefaultNeighbour)

\* q and r: the two magnitudes read along the gradient direction
NeighbourQ(m, dir, x, y, w) ==
    CASE Sector(dir) = 0   -> m[y * w + (x + 1)]
      [] Sector(dir) = 45  -> m[(y + 1) * w + (x + 1)]
      [] Sector(dir) = 90  -> m[(y + 1) * w + x]
      [] Sector(dir) = 135 -> m[(y - 1) * w + (x + 1)]
      [] OTHER             -> DefaultSq

NeighbourR(m, dir, x, y, w) ==
    CASE Sector(dir) = 0   -> m[y * w + (x - 1)]
      [] Sector(dir) = 45  -> m[(y - 1) * w + (x - 1)]
      [] Sector(dir) = 90  -> m[(y - 1) * w + x]
      [] Sector(dir) = 135 -> m[(y + 1) * w + (x - 1)]
      [] OTHER             -> DefaultSq

Survives(m, dirs, i, w) ==
    /\ m[i] >= NeighbourQ(m, dirs[i], XOf(i, w), YOf(i, w), w)
    /\ m[i] >= NeighbourR(m, dirs[i], XOf(i, w), YOf(i, w), w)

nonMaximumSuppression(m, dirs, w, h) ==
    [i \in 0..(w * h - 1) |->
        IF Interior(i, w, h) /\ Survives(m, dirs, i, w) THEN m[i] ELSE 0]

\* ------------------------------------------------ 3. hysteresis thresholds
\* the same with <=
AtMost(vSq, threshold) ==
    threshold >= 0 /\ vSq <= (kSum * threshold) * (kSum * threshold)

\* nms[i] >= threshold, on the squares
AtLeast(vSq, threshold) ==
    threshold <= 0 \/ vSq >= (kSum * threshold) * (kSum * threshold)

\* the same, the second test made against high: no pixel is WEAK
classifyNoWeak(v, low, high) ==
    IF AtLeast(v, high) THEN STRONG
    ELSE IF AtLeast(v, high) THEN WEAK
    ELSE NONE

classify(v, low, high) ==
    IF AtLeast(v, high) THEN STRONG
    ELSE IF AtLeast(v, low) THEN WEAK
    ELSE NONE

\* the seeds in the order they are pushed: increasing index
seedStack(f, high, n) ==
    LET indices == [k \in 1..n |-> k - 1]
        seeded(i) == AtLeast(f[i], high)
    IN  SelectSeq(indices, seeded)

\* the <<lowThreshold, highThreshold>> pairs of the runs whose worklist is
\* processed in any order; with lowThreshold 0 every pixel below
\* highThreshold is WEAK, and the propagation floods the image
AnyOrderThresholds(w, h) ==
    {<<100, 180>>, <<50, 255>>, <<1, 600>>, <<1, 100>>, <<1, 1>>}
    \cup (IF w * h <= FloodArea THEN {<<0, 600>>, <<0, 100>>} ELSE {})

\* the same scan with the column offset in the outer loop
neighbourOrderDxOuter ==
    << <<-1, -1>>, <<0, -1>>, <<1, -1>>, <<-1, 0>>,
       <<1, 0>>, <<-1, 1>>, <<0, 1>>, <<1, 1>> >>

\* the neighbour scan "for i = -1..1, for j = -1..1, skip (0,0)": <<i, j>>,
\* i the row offset, j the column offset
neighbourOrder ==
    << <<-1, -1>>, <<-1, 0>>, <<-1, 1>>, <<0, -1>>,
       <<0, 1>>, <<1, -1>>, <<1, 0>>, <<1, 1>> >>

InImage(x, y, w, h) == x >= 0 /\ x < w /\ y >= 0 /\ y < h

\* the same, only the first WEAK neighbour promoted and pushed
weakNeighboursFirstOnly(tm, idx, w, h) ==
    LET cx == idx % w
        cy == idx \div w
        hit(o) == /\ InImage(cx + o[2], cy + o[1], w, h)
                  /\ tm[(cy + o[1]) * w + (cx + o[2])] = WEAK
        sel == SelectSeq(neighbourOrder, hit)
    IN  IF Len(sel) = 0 THEN <<>>
        ELSE <<(cy + sel[1][1]) * w + (cx + sel[1][2])>>

\* the indices pushed while the neighbours of idx are scanned, in push order
weakNeighbours(tm, idx, w, h) ==
    LET cx == idx % w
        cy == idx \div w
        hit(o) == /\ InImage(cx + o[2], cy + o[1], w, h)
                  /\ tm[(cy + o[1]) * w + (cx + o[2])] = WEAK
        sel == SelectSeq(neighbourOrder, hit)
    IN  [k \in 1..Len(sel) |-> (cy + sel[k][1]) * w + (cx + sel[k][2])]

SeqRange(s) == {s[k] : k \in 1..Len(s)}

\* the traceMap the loop "while (stack.length > 0)" ends with, started on
\* the map tm with the worklist st: the top is popped, its WEAK neighbours
\* are promoted and pushed
RECURSIVE propagation(_, _, _, _)
propagation(tm, st, w, h) ==
    IF Len(st) = 0 THEN tm
    ELSE LET idx == st[Len(st)]
             pushed == weakNeighbours(tm, idx, w, h)
         IN  propagation([i \in DOMAIN tm |->
                             IF i \in SeqRange(pushed) THEN STRONG ELSE tm[i]],
                         SubSeq(st, 1, Len(st) - 1) \o pushed, w, h)

\* ---------------------------------------------------------- vectoriseEdges
\* "edgeData[(y * width + x) * 4] === 255": the red channel; an index past the
\* end of the buffer reads undefined, which is not 255
IsEdge(ed, x, y, w) ==
    LET idx == y * w + x
    IN  idx \in DOMAIN ed /\ ed[idx][1] = 255

\* the key `${x},${y}` of the visited set: one key per coordinate pair
Key(x, y) == <<x, y>>

\* a Point {x, y}
Pt(x, y) == <<x, y>>

\* the same with the loops exchanged: x outer, y inner
scanPixelsColumnMajor(ed, w, h) ==
    LET all == [k \in 1..(w * h) |-> Pt((k - 1) \div h, (k - 1) % h)]
        edge(p) == IsEdge(ed, p[1], p[2], w)
    IN  SelectSeq(all, edge)

\* the row-major collection of the edge pixels
scanPixels(ed, w, h) ==
    LET all == [k \in 1..(w * h) |-> Pt(XOf(k - 1, w), YOf(k - 1, w))]
        edge(p) == IsEdge(ed, p[1], p[2], w)
    IN  SelectSeq(all, edge)

\* the neighbours of curr the walk may step to, in scan order (dy outer, dx
\* inner); the walk takes the first
openNeighbours(curr, vis, ed, w, h) ==
    LET ok(o) == /\ InImage(curr[1] + o[2], curr[2] + o[1], w, h)
                 /\ Key(curr[1] + o[2], curr[2] + o[1]) \notin vis
                 /\ IsEdge(ed, curr[1] + o[2], curr[2] + o[1], w)
        sel == SelectSeq(neighbourOrder, ok)
    IN  [k \in 1..Len(sel) |-> Pt(curr[1] + sel[k][2], curr[2] + sel[k][1])]

\* the same with >=: a path of exactly minPathLength points is kept
keepPathInclusive(p, minLen) == 2 * Len(p) >= minLen

\* the same with minPathLength rounded first: 1.5 counts as 2
keepPathRounded(p, minLen) == Len(p) > (minLen + 1) \div 2

\* "path.length > minPathLength", minPathLength in halves
keepPath(p, minLen) == 2 * Len(p) > minLen

\* the same with Math.round: 1.5 gives 2
strideOfRounded(simp) == Max(1, (simp + 1) \div 2)

\* Math.max(1, Math.floor(simplification)), simplification in halves
strideOf(simp) == Max(1, simp \div 2)

\* the loop "for (i = 0; i < path.length; i += stride) push(path[i])": the
\* indices pushed from i on (path[i] is element i + 1 of the sequence)
RECURSIVE strideIndices(_, _, _)
strideIndices(i, n, stride) ==
    IF i < n THEN <<i>> \o strideIndices(i + stride, n, stride) ELSE <<>>

\* the same without the push of the last point
withLastIndexOmitted(idxs, n) == idxs

\* "if (simplePath[last] !== path[last]) push(path[last])": the points of one
\* path are distinct objects, so the two are the same object exactly when
\* the last index pushed is path.length - 1
withLastIndex(idxs, n) ==
    IF idxs[Len(idxs)] # n - 1 THEN Append(idxs, n - 1) ELSE idxs

\* the body of paths.map
simplePath(p, stride) ==
    IF Len(p) < 2 THEN <<>>
    ELSE LET idxs == withLastIndex(strideIndices(0, Len(p), stride), Len(p))
         IN  [k \in 1..Len(idxs) |-> p[idxs[k] + 1]]

\* the same with "p.length !== 1": an empty path passes
longEnoughOrEmpty(p) == Len(p) # 1

\* ".filter(p => p.length > 1)"
longEnough(p) == Len(p) > 1

\* App as mounted (useState initial values), no image uploaded to TracerPanel
UiIdle ==
    /\ shapes = <<>>
    /\ history = << <<>> >>
    /\ historyIndex = 0
    /\ isDirty = FALSE
    /\ lastOp = "none"
    /\ discarded = 0
    /\ canvas = <<>>

\* vectoriseEdges has not been called
VecIdle ==
    /\ simplification = 0
    /\ minPathLength = 0
    /\ pixels = <<>>
    /\ pIdx = 0
    /\ visited = {}
    /\ path = <<>>
    /\ walkStack = <<>>
    /\ paths = <<>>
    /\ rawPaths = <<>>
    /\ mapped = <<>>
    /\ result = <<>>

\* ------------------------------------------------------------ the inputs
Uniform(w, h, n, px) == [i \in 0..(n - 1) |-> px]

\* one white pixel at index p (an index of the surplus is allowed)
SinglePixel(n, p) == [i \in 0..(n - 1) |-> IF i = p THEN White ELSE Black]

\* black for x < c, white for x >= c
VerticalStep(w, h, n, c) ==
    [i \in 0..(n - 1) |-> IF i < w * h /\ XOf(i, w) >= c THEN White ELSE Black]

\* the pixel buffers of n pixels offered for a w x h image
Images(w, h, n) ==
    {Uniform(w, h, n, Black), Uniform(w, h, n, White)}
    \cup {SinglePixel(n, p) : p \in 0..(n - 1)}
    \cup {VerticalStep(w, h, n, c) : c \in 1..(w - 1)}

\* the buffer d with every alpha byte set to a
WithAlpha(d, a) == [i \in DOMAIN d |-> <<d[i][1], d[i][2], d[i][3], a>>]

\* pixels of several colours and alpha values, in turn
Colours ==
    << <<255, 0, 0, 255>>, <<0, 255, 0, 0>>, <<0, 36, 12, 128>>, <<0, 12, 4, 7>>,
       <<255, 255, 255, 0>>, <<0, 0, 0, 255>>, <<0, 0, 255, 64>> >>

Palette(n) == [i \in 0..(n - 1) |-> Colours[(i % Len(Colours)) + 1]]

\* ------------------------------------------------------------------ Init
\* the 10x10 image black for x < 5 and white for x >= 5
StepImage == VerticalStep(10, 10, 100, 5)

\* the <<lowThreshold, highThreshold>> pairs it is processed with
StepThresholds == {<<10, 50>>, <<200, 200>>, <<200, 255>>}

Init ==
    /\ pc = "gray"
    /\ \/ /\ width \in 1..MaxW
          /\ height \in 1..MaxH
          /\ \E extra \in 0..MaxExtra :
                data \in Images(width, height, width * height + extra)
          /\ lowThreshold \in Thresholds
          /\ highThreshold \in Thresholds
       \/ /\ width = 10
          /\ height = 10
          /\ data = StepImage
          /\ \E t \in StepThresholds :
                lowThreshold = t[1] /\ highThreshold = t[2]
    /\ gray = <<>>
    /\ blurred = <<>>
    /\ magnitudes = <<>>
    /\ directions = <<>>
    /\ nms = <<>>
    /\ traceMap = <<>>
    /\ stack = <<>>
    /\ edgeData = <<>>
    /\ VecIdle
    /\ calls = <<>>
    /\ UiIdle

\* the <<simplification, minPathLength>> pairs process() passes on
PipelineParams == {<<2, 0>>, <<4, 4>>}

\* the edge buffers of n pixels handed to vectoriseEdges directly
Masks(n) == [0..(n - 1) -> {Black, White}]

\* a full row of w edge pixels
RowMask(w) == [i \in 0..(w - 1) |-> White]

\* the factors and lengths handed to vectoriseEdges, in halves: any number
\* is accepted, negative and fractional ones too
Simplifications == {-3, 0, 1, 2, 3, 4, 6}
MinPathLengths == {-3, 0, 1, 3, 4}

\* no cannyEdgeDetection state: the buffer comes from the caller
CannyIdle ==
    /\ data = <<>>
    /\ lowThreshold = 0
    /\ highThreshold = 0
    /\ gray = <<>>
    /\ blurred = <<>>
    /\ magnitudes = <<>>
    /\ directions = <<>>
    /\ nms = <<>>
    /\ traceMap = <<>>
    /\ stack = <<>>

InitVec ==
    /\ pc = "scan"
    /\ CannyIdle
    /\ \/ /\ width \in 1..MaxPixels
          /\ height \in 1..MaxPixels
          /\ width * height <= MaxPixels
          /\ \E missing \in 0..MaxMissing :
                /\ missing <= width * height
                /\ edgeData \in Masks(width * height - missing)
       \/ /\ width \in (MaxPixels + 1)..MaxRow
          /\ height = 1
          /\ edgeData = RowMask(width)
    /\ simplification \in Simplifications
    /\ minPathLength \in MinPathLengths
    /\ pixels = <<>>
    /\ pIdx = 0
    /\ visited = {}
    /\ path = <<>>
    /\ walkStack = <<>>
    /\ paths = <<>>
    /\ rawPaths = <<>>
    /\ mapped = <<>>
    /\ result = <<>>
    /\ calls = <<>>
    /\ UiIdle

\* the <<width, height, data, lowThreshold, highThreshold>> offered to the
\* repeated calls
RepeatInputs ==
    {<<4, 3, d, t[1], t[2]>> :
        d \in {VerticalStep(4, 3, 12, 2), WithAlpha(VerticalStep(4, 3, 12, 2), 0),
               Palette(12)},
        t \in {<<0, 0>>, <<100, 180>>}}

\* the first of several invocations
InitRepeat ==
    /\ pc = "gray"
    /\ \E in \in RepeatInputs :
          /\ width = in[1]
          /\ height = in[2]
          /\ data = in[3]
          /\ lowThreshold = in[4]
          /\ highThreshold = in[5]
    /\ gray = <<>>
    /\ blurred = <<>>
    /\ magnitudes = <<>>
    /\ directions = <<>>
    /\ nms = <<>>
    /\ traceMap = <<>>
    /\ stack = <<>>
    /\ edgeData = <<>>
    /\ VecIdle
    /\ calls = <<>>
    /\ UiIdle

\* cannyEdgeDetection alone, on well-formed images with an interior
InitAnyOrder ==
    /\ pc = "gray"
    /\ width \in 3..MaxW
    /\ height \in 3..MaxH
    /\ data \in Images(width, height, width * height)
    /\ \E t \in AnyOrderThresholds(width, height) :
          lowThreshold = t[1] /\ highThreshold = t[2]
    /\ gray = <<>>
    /\ blurred = <<>>
    /\ magnitudes = <<>>
    /\ directions = <<>>
    /\ nms = <<>>
    /\ traceMap = <<>>
    /\ stack = <<>>
    /\ edgeData = <<>>
    /\ VecIdle
    /\ calls = <<>>
    /\ UiIdle

\* --------------------------------------------------- cannyEdgeDetection
Grayscale ==
    /\ pc = "gray"
    /\ gray' = toGrayscale(data)
    /\ pc' = "blur"
    /\ UNCHANGED <<uiVars, calls, width, height, data, lowThreshold, highThreshold, blurred,
                   magnitudes, directions, nms, traceMap, stack, edgeData, vecVars>>

\* the same with the blurred values written back into the input array
BlurInPlace ==
    /\ pc = "blur"
    /\ blurred' = gaussianBlur(gray, width, height)
    /\ gray' = [i \in DOMAIN gray |-> gaussianBlur(gray, width, height)[i] \div kSum]
    /\ pc' = "gradient"
    /\ UNCHANGED <<uiVars, calls, width, height, data, lowThreshold, highThreshold,
                   magnitudes, directions, nms, traceMap, stack, edgeData, vecVars>>

Blur ==
    /\ pc = "blur"
    /\ blurred' = gaussianBlur(gray, width, height)
    /\ pc' = "gradient"
    /\ UNCHANGED <<uiVars, calls, width, height, data, lowThreshold, highThreshold, gray,
                   magnitudes, directions, nms, traceMap, stack, edgeData, vecVars>>

Gradient ==
    /\ pc = "gradient"
    /\ magnitudes' = gradientMagnitudes(blurred, width, height)
    /\ directions' = gradientDirections(blurred, width, height)
    /\ pc' = "nms"
    /\ UNCHANGED <<uiVars, calls, width, height, data, lowThreshold, highThreshold, gray,
                   blurred, nms, traceMap, stack, edgeData, vecVars>>

Suppress ==
    /\ pc = "nms"
    /\ nms' = nonMaximumSuppression(magnitudes, directions, width, height)
    /\ pc' = "classify"
    /\ UNCHANGED <<uiVars, calls, width, height, data, lowThreshold, highThreshold, gray,
                   blurred, magnitudes, directions, traceMap, stack, edgeData, vecVars>>

\* "Identify Strong and Weak"
Classify ==
    /\ pc = "classify"
    /\ traceMap' = [i \in DOMAIN nms |-> classify(nms[i], lowThreshold, highThreshold)]
    /\ stack' = seedStack(nms, highThreshold, width * height)
    /\ pc' = "propagate"
    /\ UNCHANGED <<uiVars, calls, width, height, data, lowThreshold, highThreshold, gray,
                   blurred, magnitudes, directions, nms, edgeData, vecVars>>

\* the same, the WEAK neighbours pushed and left WEAK
PropagateUnmarked ==
    /\ pc = "propagate"
    /\ Len(stack) > 0
    /\ LET idx == stack[Len(stack)]
           pushed == weakNeighbours(traceMap, idx, width, height)
       IN  /\ traceMap' = traceMap
           /\ stack' = SubSeq(stack, 1, Len(stack) - 1) \o pushed
    /\ UNCHANGED <<uiVars, calls, pc, width, height, data, lowThreshold, highThreshold, gray,
                   blurred, magnitudes, directions, nms, edgeData, vecVars>>

\* one iteration of "while (stack.length > 0)"
Propagate ==
    /\ pc = "propagate"
    /\ Len(stack) > 0
    /\ LET idx == stack[Len(stack)]
           pushed == weakNeighbours(traceMap, idx, width, height)
       IN  /\ traceMap' = [i \in DOMAIN traceMap |->
                              IF i \in SeqRange(pushed) THEN STRONG ELSE traceMap[i]]
           /\ stack' = SubSeq(stack, 1, Len(stack) - 1) \o pushed
    /\ UNCHANGED <<uiVars, calls, pc, width, height, data, lowThreshold, highThreshold, gray,
                   blurred, magnitudes, directions, nms, edgeData, vecVars>>

\* one iteration of the loop with the worklist read in any order: any entry
\* is taken out instead of the last (the last is the code's choice)
PropagateAny ==
    /\ pc = "propagate"
    /\ \E k \in 1..Len(stack) :
          LET idx == stack[k]
              pushed == weakNeighbours(traceMap, idx, width, height)
          IN  /\ traceMap' = [i \in DOMAIN traceMap |->
                                 IF i \in SeqRange(pushed) THEN STRONG ELSE traceMap[i]]
              /\ stack' = SubSeq(stack, 1, k - 1) \o SubSeq(stack, k + 1, Len(stack))
                              \o pushed
    /\ UNCHANGED <<uiVars, calls, pc, width, height, data, lowThreshold, highThreshold, gray,
                   blurred, magnitudes, directions, nms, edgeData, vecVars>>

\* "Output to RGBA": edges has the length of imageData.data, and only the
\* first traceMap.length pixels are written
Output ==
    /\ pc = "propagate"
    /\ Len(stack) = 0
    /\ edgeData' = [i \in DOMAIN data |->
                      IF i < width * height
                      THEN (IF traceMap[i] = STRONG THEN White ELSE Black)
                      ELSE <<0, 0, 0, 0>>]
    /\ pc' = "canny_done"
    /\ UNCHANGED <<uiVars, calls, cannyVars, vecVars>>

\* ------------------------------------------------------- vectoriseEdges
\* process() of TracerPanel draws the edge buffer on its canvas
\* ("ctx.putImageData(outputImage, 0, 0)") and hands it on with its two
\* parameters
CallVectorise ==
    /\ pc = "canny_done"
    /\ canvas' = <<width, height, edgeData>>
    /\ \E sm \in PipelineParams :
          /\ simplification' = sm[1]
          /\ minPathLength' = sm[2]
    /\ pc' = "scan"
    /\ UNCHANGED <<appVars, calls, cannyVars, edgeData, pixels, pIdx, visited, path, walkStack,
                   paths, rawPaths, mapped, result>>

\* the same, the visited set kept from the call before (a set of module
\* scope instead of "new Set()")
ScanKeepVisited ==
    /\ pc = "scan"
    /\ pixels' = scanPixels(edgeData, width, height)
    /\ visited' = visited
    /\ paths' = <<>>
    /\ pIdx' = 1
    /\ pc' = "pixels"
    /\ UNCHANGED <<uiVars, calls, cannyVars, edgeData, simplification, minPathLength, path,
                   walkStack, rawPaths, mapped, result>>

Scan ==
    /\ pc = "scan"
    /\ pixels' = scanPixels(edgeData, width, height)
    /\ visited' = {}
    /\ paths' = <<>>
    /\ pIdx' = 1
    /\ pc' = "pixels"
    /\ UNCHANGED <<uiVars, calls, cannyVars, edgeData, simplification, minPathLength, path,
                   walkStack, rawPaths, mapped, result>>

\* "if (visited.has(key)) continue"
SkipVisited ==
    /\ pc = "pixels"
    /\ pIdx <= Len(pixels)
    /\ Key(pixels[pIdx][1], pixels[pIdx][2]) \in visited
    /\ pIdx' = pIdx + 1
    /\ UNCHANGED <<uiVars, calls, pc, cannyVars, edgeData, simplification, minPathLength, pixels,
                   visited, path, walkStack, paths, rawPaths, mapped, result>>

\* the same, the first pixel not marked visited
StartWalkUnmarked ==
    /\ pc = "pixels"
    /\ pIdx <= Len(pixels)
    /\ Key(pixels[pIdx][1], pixels[pIdx][2]) \notin visited
    /\ walkStack' = <<pixels[pIdx]>>
    /\ visited' = visited
    /\ path' = <<pixels[pIdx]>>
    /\ pc' = "walk"
    /\ UNCHANGED <<uiVars, calls, cannyVars, edgeData, simplification, minPathLength, pixels,
                   pIdx, paths, rawPaths, mapped, result>>

StartWalk ==
    /\ pc = "pixels"
    /\ pIdx <= Len(pixels)
    /\ Key(pixels[pIdx][1], pixels[pIdx][2]) \notin visited
    /\ walkStack' = <<pixels[pIdx]>>
    /\ visited' = visited \cup {Key(pixels[pIdx][1], pixels[pIdx][2])}
    /\ path' = <<pixels[pIdx]>>
    /\ pc' = "walk"
    /\ UNCHANGED <<uiVars, calls, cannyVars, edgeData, simplification, minPathLength, pixels,
                   pIdx, paths, rawPaths, mapped, result>>

\* an iteration of "while (stack.length)" that finds a neighbour
WalkAdvance ==
    /\ pc = "walk"
    /\ Len(walkStack) > 0
    /\ LET open == openNeighbours(walkStack[Len(walkStack)], visited, edgeData,
                                  width, height)
       IN  /\ Len(open) > 0
           /\ visited' = visited \cup {Key(open[1][1], open[1][2])}
           /\ path' = Append(path, open[1])
           /\ walkStack' = Append(walkStack, open[1])
    /\ UNCHANGED <<uiVars, calls, pc, cannyVars, edgeData, simplification, minPathLength, pixels,
                   pIdx, paths, rawPaths, mapped, result>>

\* the same, the whole stack dropped: the walk ends at its first dead end
WalkBacktrackAll ==
    /\ pc = "walk"
    /\ Len(walkStack) > 0
    /\ Len(openNeighbours(walkStack[Len(walkStack)], visited, edgeData,
                          width, height)) = 0
    /\ walkStack' = <<>>
    /\ UNCHANGED <<uiVars, calls, pc, cannyVars, edgeData, simplification, minPathLength, pixels,
                   pIdx, visited, path, paths, rawPaths, mapped, result>>

\* an iteration that finds none: "stack.pop()"
WalkBacktrack ==
    /\ pc = "walk"
    /\ Len(walkStack) > 0
    /\ Len(openNeighbours(walkStack[Len(walkStack)], visited, edgeData,
                          width, height)) = 0
    /\ walkStack' = SubSeq(walkStack, 1, Len(walkStack) - 1)
    /\ UNCHANGED <<uiVars, calls, pc, cannyVars, edgeData, simplification, minPathLength, pixels,
                   pIdx, visited, path, paths, rawPaths, mapped, result>>

\* the stack is empty: "if (path.length > minPathLength) paths.push(path)"
EndWalk ==
    /\ pc = "walk"
    /\ Len(walkStack) = 0
    /\ paths' = IF keepPath(path, minPathLength) THEN Append(paths, path) ELSE paths
    /\ rawPaths' = Append(rawPaths, path)
    /\ pIdx' = pIdx + 1
    /\ pc' = "pixels"
    /\ UNCHANGED <<uiVars, calls, cannyVars, edgeData, simplification, minPathLength, pixels,
                   visited, path, walkStack, mapped, result>>

\* "paths.map(path => ...)"
Simplify ==
    /\ pc = "pixels"
    /\ pIdx > Len(pixels)
    /\ mapped' = [k \in 1..Len(paths) |-> simplePath(paths[k], strideOf(simplification))]
    /\ pc' = "filter"
    /\ UNCHANGED <<uiVars, calls, cannyVars, edgeData, simplification, minPathLength, pixels,
                   pIdx, visited, path, walkStack, paths, rawPaths, result>>

\* ".filter(p => p.length > 1)" and return
Filter ==
    /\ pc = "filter"
    /\ result' = SelectSeq(mapped, longEnough)
    /\ pc' = "done"
    /\ UNCHANGED <<uiVars, calls, cannyVars, edgeData, simplification, minPathLength, pixels,
                   pIdx, visited, path, walkStack, paths, rawPaths, mapped>>

\* the arguments of the invocation in progress
CallInput ==
    <<width, height, data, lowThreshold, highThreshold, simplification, minPathLength>>

\* the pipeline has returned and is invoked again, on any input.  The fields
\* and collections of the returned call are left as they are: a new call
\* allocates its own, and each step below writes its output before any later
\* step reads it.
Reinvoke ==
    /\ pc = "done"
    /\ Len(calls) < MaxCalls - 1
    /\ calls' = Append(calls, <<CallInput, result, gray, edgeData>>)
    /\ \E in \in RepeatInputs :
          /\ width' = in[1]
          /\ height' = in[2]
          /\ data' = in[3]
          /\ lowThreshold' = in[4]
          /\ highThreshold' = in[5]
    /\ rawPaths' = <<>>
    /\ pc' = "gray"
    /\ UNCHANGED <<uiVars, gray, blurred, magnitudes, directions, nms, traceMap, stack,
                   edgeData, simplification, minPathLength, pixels, pIdx, visited,
                   path, walkStack, paths, mapped, result>>

Vectorise ==
    \/ Scan
    \/ SkipVisited
    \/ StartWalk
    \/ WalkAdvance
    \/ WalkBacktrack
    \/ EndWalk
    \/ Simplify
    \/ Filter

vars == <<pc, width, height, data, lowThreshold, highThreshold, gray, blurred,
          magnitudes, directions, nms, traceMap, stack, edgeData, vecVars, calls,
          uiVars>>

Next ==
    \/ Grayscale
    \/ Blur
    \/ Gradient
    \/ Suppress
    \/ Classify
    \/ Propagate
    \/ Output
    \/ CallVectorise
    \/ Vectorise

\* cannyEdgeDetection, then vectoriseEdges on its result
Spec == Init /\ [][Next]_vars

NextRepeat ==
    \/ Next
    \/ Reinvoke

\* the pipeline invoked up to MaxCalls times in a row
SpecRepeat == InitRepeat /\ [][NextRepeat]_vars

NextAnyOrder ==
    \/ Grayscale
    \/ Blur
    \/ Gradient
    \/ Suppress
    \/ Classify
    \/ PropagateAny
    \/ Output

\* cannyEdgeDetection with the propagation worklist processed in any order
SpecAnyOrder == InitAnyOrder /\ [][NextAnyOrder]_vars

\* vectoriseEdges called on an edge buffer of the caller's own
SpecVec == InitVec /\ [][Vectorise]_vars

\* ---------------------------------------------------------------- App
\* a Shape is <<id, attribute>>; the attribute stands for whatever an update
\* changes (visible, name, fill, points, ...)
Attrs == {0, 1}
ShapeIds == 1..MaxShapes

IdsOf(ss) == {ss[k][1] : k \in 1..Len(ss)}

\* "Date.now().toString()": an id that no shape on the canvas has
freshId(ss) == CHOOSE id \in ShapeIds \ IdsOf(ss) : \A o \in ShapeIds \ IdsOf(ss) : id <= o

\* Array.prototype.slice(from, to): to is clamped to the length
slice(arr, from, to) == SubSeq(arr, from + 1, IF to > Len(arr) THEN Len(arr) ELSE to)

\* arr[i], from 0; undefined outside the array
elementAt(arr, i) == IF i >= 0 /\ i < Len(arr) THEN arr[i + 1] ELSE "undefined"

\* "shapes.map(s => s.id === id ? { ...s, ...updates } : s)"
updated(ss, id, a) == [k \in 1..Len(ss) |-> IF ss[k][1] = id THEN <<id, a>> ELSE ss[k]]

\* "shapes.filter(s => s.id !== id)"
without(ss, id) ==
    LET keep(sh) == sh[1] # id
    IN  SelectSeq(ss, keep)

\* the same, the snapshots after the cursor kept
addToHistoryNoTruncate(newShapes) ==
    LET newHistory == Append(history, newShapes)
    IN  /\ history' = newHistory
        /\ historyIndex' = Len(newHistory) - 1
        /\ shapes' = newShapes
        /\ discarded' = Len(history) + 1 - Len(newHistory)

addToHistory(newShapes) ==
    LET newHistory == Append(slice(history, 0, historyIndex + 1), newShapes)
    IN  /\ history' = newHistory
        /\ historyIndex' = Len(newHistory) - 1
        /\ shapes' = newShapes
        /\ discarded' = Len(history) + 1 - Len(newHistory)

\* every run keeps at most MaxHistory snapshots
RoomInHistory == historyIndex + 2 <= MaxHistory

PipelineUntouched ==
    UNCHANGED <<pc, cannyVars, edgeData, vecVars, calls, canvas>>

\* the same, the cursor moved and shapes left as they are
undoCursorOnly ==
    /\ pc = "app"
    /\ lastOp' = "undo"
    /\ IF historyIndex > 0
       THEN /\ historyIndex' = historyIndex - 1
            /\ shapes' = shapes
       ELSE UNCHANGED <<historyIndex, shapes>>
    /\ UNCHANGED <<history, isDirty, discarded>>
    /\ PipelineUntouched

undo ==
    /\ pc = "app"
    /\ lastOp' = "undo"
    /\ IF historyIndex > 0
       THEN LET newIndex == historyIndex - 1
            IN  /\ historyIndex' = newIndex
                /\ shapes' = elementAt(history, newIndex)
       ELSE UNCHANGED <<historyIndex, shapes>>
    /\ UNCHANGED <<history, isDirty, discarded>>
    /\ PipelineUntouched

redo ==
    /\ pc = "app"
    /\ lastOp' = "redo"
    /\ IF historyIndex < Len(history) - 1
       THEN LET newIndex == historyIndex + 1
            IN  /\ historyIndex' = newIndex
                /\ shapes' = elementAt(history, newIndex)
       ELSE UNCHANGED <<historyIndex, shapes>>
    /\ UNCHANGED <<history, isDirty, discarded>>
    /\ PipelineUntouched

handleClearShapes ==
    /\ pc = "app"
    /\ RoomInHistory
    /\ lastOp' = "clear"
    /\ addToHistory(<<>>)
    /\ UNCHANGED isDirty
    /\ PipelineUntouched

\* LayerPanel's delete button of a listed shape
handleDelete ==
    /\ pc = "app"
    /\ RoomInHistory
    /\ lastOp' = "delete"
    /\ \E id \in IdsOf(shapes) : addToHistory(without(shapes, id))
    /\ UNCHANGED isDirty
    /\ PipelineUntouched

\* LayerPanel's controls of a listed shape
handleImmediateUpdateShape ==
    /\ pc = "app"
    /\ RoomInHistory
    /\ lastOp' = "update"
    /\ \E id \in IdsOf(shapes), a \in Attrs : addToHistory(updated(shapes, id, a))
    /\ UNCHANGED isDirty
    /\ PipelineUntouched

\* EditorCanvas.handleMouseDown: "isDirtyRef.current = false"
handleMouseDown ==
    /\ pc = "app"
    /\ lastOp' = "mouseDown"
    /\ isDirty' = FALSE
    /\ UNCHANGED <<shapes, history, historyIndex, discarded>>
    /\ PipelineUntouched

\* EditorCanvas.handleMouseMove while a shape or a vertex is dragged
handleTransientUpdateShape ==
    /\ pc = "app"
    /\ lastOp' = "drag"
    /\ \E id \in IdsOf(shapes), a \in Attrs : shapes' = updated(shapes, id, a)
    /\ isDirty' = TRUE
    /\ UNCHANGED <<history, historyIndex, discarded>>
    /\ PipelineUntouched

\* EditorCanvas.handleMouseUp: "if (... isDirtyRef.current) onShapeActionEnd()"
handleShapeActionEnd ==
    /\ pc = "app"
    /\ RoomInHistory
    /\ isDirty
    /\ lastOp' = "dragEnd"
    /\ addToHistory(shapes)
    /\ isDirty' = FALSE
    /\ PipelineUntouched

\* a drawn shape, with an id of its own
handleAddShape ==
    /\ pc = "app"
    /\ RoomInHistory
    /\ Len(shapes) < MaxShapes
    /\ lastOp' = "add"
    /\ \E a \in Attrs : addToHistory(Append(shapes, <<freshId(shapes), a>>))
    /\ UNCHANGED isDirty
    /\ PipelineUntouched

\* TracerPanel.handleSend: one shape for each generated path, none included
onAddToEditor ==
    /\ pc = "app"
    /\ RoomInHistory
    /\ lastOp' = "import"
    /\ \/ addToHistory(shapes)
       \/ /\ Len(shapes) < MaxShapes
          /\ addToHistory(Append(shapes, <<freshId(shapes), 0>>))
    /\ UNCHANGED isDirty
    /\ PipelineUntouched

InitApp ==
    /\ pc = "app"
    /\ width = 0
    /\ height = 0
    /\ CannyIdle
    /\ edgeData = <<>>
    /\ VecIdle
    /\ calls = <<>>
    /\ UiIdle

NextApp ==
    \/ undo
    \/ redo
    \/ handleClearShapes
    \/ handleDelete
    \/ handleImmediateUpdateShape
    \/ handleMouseDown
    \/ handleTransientUpdateShape
    \/ handleShapeActionEnd
    \/ handleAddShape
    \/ onAddToEditor

\* the editor: any sequence of the handlers of App
SpecApp == InitApp /\ [][NextApp]_vars

\* -------------------------------------------------------- TracerPanel
\* the uploads: <<width, height, pixels as getImageData returns them>>
Uploads ==
    {<<4, 3, VerticalStep(4, 3, 12, 2)>>, <<4, 3, Palette(12)>>,
     <<5, 4, VerticalStep(5, 4, 20, 2)>>, <<5, 4, SinglePixel(20, 7)>>}

\* the <<cannyLow, cannyHigh>> slider positions
SliderThresholds == {<<50, 150>>, <<0, 100>>, <<100, 255>>}

\* handleUpload and the effect on [image]: the image is drawn on the canvas
handleUpload ==
    /\ pc \in {"idle", "done"}
    /\ canvas' \in Uploads
    /\ calls' = <<>>
    /\ pc' = "idle"
    /\ UNCHANGED <<appVars, cannyVars, edgeData, vecVars>>

\* process(), up to the call of cannyEdgeDetection: the pixels are read from
\* the canvas
process ==
    /\ pc \in {"idle", "done"}
    /\ Len(calls) < MaxCalls - 1
    /\ calls' = IF pc = "done"
                THEN Append(calls, <<CallInput, result, gray, edgeData>>)
                ELSE calls
    /\ width' = canvas[1]
    /\ height' = canvas[2]
    /\ data' = canvas[3]
    /\ rawPaths' = <<>>
    /\ pc' = "gray"
    /\ UNCHANGED <<uiVars, lowThreshold, highThreshold, gray, blurred, magnitudes,
                   directions, nms, traceMap, stack, edgeData, simplification,
                   minPathLength, pixels, pIdx, visited, path, walkStack, paths,
                   mapped, result>>

\* the panel with an image uploaded and the sliders set
InitPanel ==
    /\ pc = "idle"
    /\ canvas \in Uploads
    /\ width = 0
    /\ height = 0
    /\ data = <<>>
    /\ \E t \in SliderThresholds :
          lowThreshold = t[1] /\ highThreshold = t[2]
    /\ gray = <<>>
    /\ blurred = <<>>
    /\ magnitudes = <<>>
    /\ directions = <<>>
    /\ nms = <<>>
    /\ traceMap = <<>>
    /\ stack = <<>>
    /\ edgeData = <<>>
    /\ VecIdle
    /\ calls = <<>>
    /\ shapes = <<>>
    /\ history = << <<>> >>
    /\ historyIndex = 0
    /\ isDirty = FALSE
    /\ lastOp = "none"
    /\ discarded = 0

NextPanel ==
    \/ handleUpload
    \/ process
    \/ Next

\* TracerPanel: uploads and process() runs, in any order
SpecPanel == InitPanel /\ [][NextPanel]_vars

\* ====================================================================
\* Properties
\* ====================================================================
Chebyshev(p, q) == Max(Abs(p[1] - q[1]), Abs(p[2] - q[2]))

PointsOf(p) == {p[k] : k \in 1..Len(p)}

Connected(p) == \A i \in 1..(Len(p) - 1) : Chebyshev(p[i], p[i + 1]) <= 1

\* the pixels of the w x h image whose red channel is 255
EdgePoints == {q \in (0..(width - 1)) \X (0..(height - 1)) :
                  IsEdge(edgeData, q[1], q[2], width)}

\* the least set holding S and closed under 8-adjacency inside allowed
RECURSIVE FloodPoints(_, _)
FloodPoints(S, allowed) ==
    LET grown == S \cup {q \in allowed : \E s \in S : Chebyshev(s, q) <= 1}
    IN  IF grown = S THEN S ELSE FloodPoints(grown, allowed)

\* the 8-connected component of edge pixels that holds p
ComponentOf(p) == FloodPoints({p}, EdgePoints)

\* row-major order of two points
RowMajorBefore(p, q) == p[2] < q[2] \/ (p[2] = q[2] /\ p[1] < q[1])

CannyReturned == pc \notin {"gray", "blur", "gradient", "nms", "classify", "propagate"}

PixelCount(d) == Cardinality(DOMAIN d)

\* a pixel of row 0, row h-1, column 0 or column w-1
Border(i, w, h) ==
    /\ i < w * h
    /\ (XOf(i, w) = 0 \/ XOf(i, w) = w - 1 \/ YOf(i, w) = 0 \/ YOf(i, w) = h - 1)

\* --------------------------------------------------------------------
\* C1: in every raw path of the greedy walk, finished or in progress, every
\* two consecutive points are 8-connected neighbours (Chebyshev distance
\* <= 1), also when a point is appended right after a backtrack.
C1_RawPathsConnected ==
    /\ \A k \in 1..Len(rawPaths) : Connected(rawPaths[k])
    /\ Connected(path)

\* --------------------------------------------------------------------
\* C2: for thresholds 0 <= low <= high, once cannyEdgeDetection has returned
\* no pixel of row 0, row H-1, column 0 or column W-1 is STRONG, and none is
\* written as an edge pixel.
C2_NoBorderStrong ==
    (pc = "canny_done" /\ 0 <= lowThreshold /\ lowThreshold <= highThreshold)
    => \A i \in 0..(width * height - 1) :
          Border(i, width, height)
          => (traceMap[i] # STRONG /\ edgeData[i][1] # 255)

\* --------------------------------------------------------------------
\* C3: for 0 <= low <= high, when propagation has ended a pixel is STRONG
\* exactly when its thinned magnitude is >= low and its 8-connected component
\* of pixels >= low holds a pixel >= high; the output writes R = G = B = 255
\* for a STRONG pixel and 0 for every other, so an unreached WEAK pixel is
\* not an edge.
AdjacentIdx(i, j, w) ==
    Max(Abs(XOf(i, w) - XOf(j, w)), Abs(YOf(i, w) - YOf(j, w))) <= 1

RECURSIVE FloodIdx(_, _, _)
FloodIdx(S, allowed, w) ==
    LET grown == S \cup {j \in allowed : \E i \in S : AdjacentIdx(i, j, w)}
    IN  IF grown = S THEN S ELSE FloodIdx(grown, allowed, w)

AboveLow == {i \in 0..(width * height - 1) : AtLeast(nms[i], lowThreshold)}
AboveHigh == {i \in 0..(width * height - 1) : AtLeast(nms[i], highThreshold)}

C3_StrongIsSeededComponent ==
    (pc = "canny_done" /\ 0 <= lowThreshold /\ lowThreshold <= highThreshold)
    => LET kept == FloodIdx(AboveHigh, AboveLow, width)
       IN  \A i \in 0..(width * height - 1) :
              /\ (traceMap[i] = STRONG) <=> (i \in kept)
              /\ IF traceMap[i] = STRONG
                 THEN edgeData[i][1] = 255 /\ edgeData[i][2] = 255 /\ edgeData[i][3] = 255
                 ELSE edgeData[i][1] = 0 /\ edgeData[i][2] = 0 /\ edgeData[i][3] = 0

\* a WEAK pixel was promoted and another pixel above low stayed WEAK or NONE
C3_Witness ==
    /\ pc = "canny_done"
    /\ 0 < lowThreshold /\ lowThreshold < highThreshold
    /\ \E i \in AboveLow \ AboveHigh : traceMap[i] = STRONG /\ edgeData[i][1] = 255

\* unreached WEAK pixels are discarded
C3_WitnessUnreached ==
    /\ pc = "canny_done"
    /\ 0 < lowThreshold /\ lowThreshold < highThreshold
    /\ \E i \in AboveLow : traceMap[i] = WEAK /\ edgeData[i][1] = 0

\* --------------------------------------------------------------------
\* C4: one raw path per 8-connected component of edge pixels: when
\* vectoriseEdges returns, every walk has visited exactly the component of
\* its first pixel, that pixel is the component's first in row-major order,
\* no later walk started inside a component already walked, and every edge
\* pixel is in a path.
C4_OnePathPerComponent ==
    pc = "done"
    => /\ \A k \in 1..Len(rawPaths) :
             /\ PointsOf(rawPaths[k]) = ComponentOf(rawPaths[k][1])
             /\ \A q \in ComponentOf(rawPaths[k][1]) :
                   q = rawPaths[k][1] \/ RowMajorBefore(rawPaths[k][1], q)
       /\ \A k, l \in 1..Len(rawPaths) :
             k < l => rawPaths[l][1] \notin ComponentOf(rawPaths[k][1])
       /\ EdgePoints = UNION {PointsOf(rawPaths[k]) : k \in 1..Len(rawPaths)}

\* a finished walk that backtracked to a branch: its path is not a chain of
\* neighbours, yet it holds the whole component
C4_Witness ==
    /\ pc = "done"
    /\ \E k \in 1..Len(rawPaths) :
          /\ ~Connected(rawPaths[k])
          /\ Len(rawPaths[k]) >= 4
          /\ PointsOf(rawPaths[k]) = ComponentOf(rawPaths[k][1])

\* two components, two walks
C4_WitnessTwoComponents ==
    /\ pc = "done"
    /\ Len(rawPaths) = 2
    /\ Len(rawPaths[1]) >= 2 /\ Len(rawPaths[2]) >= 2

\* --------------------------------------------------------------------
\* C5: a pixel buffer whose length is not W*H*4 is rejected: the pipeline
\* fails and returns neither an edge mask nor a PathSet.
C5_MalformedBufferRejected ==
    PixelCount(data) # width * height => ~CannyReturned

\* --------------------------------------------------------------------
\* C6: with lowThreshold > highThreshold cannyEdgeDetection fails: it neither
\* classifies the pixels nor returns an edge mask.
C6_InvertedThresholdsRejected ==
    lowThreshold > highThreshold
    => pc \in {"gray", "blur", "gradient", "nms", "classify"}

\* --------------------------------------------------------------------
\* C7: for W < 3 or H < 3 and allowed parameters (0 <= low <= high,
\* minPathLength >= 0, simplification >= 1) the blurred, magnitude and thinned
\* fields are all zero and the pipeline returns an empty PathSet.
AllZero(f) == \A i \in DOMAIN f : f[i] = 0

SmallImage == width < 3 \/ height < 3

C7_FieldsZero ==
    SmallImage
    => /\ pc \notin {"gray", "blur"} => AllZero(blurred)
       /\ pc \notin {"gray", "blur", "gradient"} => AllZero(magnitudes)
       /\ pc \notin {"gray", "blur", "gradient", "nms"} => AllZero(nms)

C7_SmallImageEmpty ==
    (SmallImage /\ 0 <= lowThreshold /\ lowThreshold <= highThreshold)
    => /\ C7_FieldsZero
       /\ (pc = "done" /\ minPathLength >= 0 /\ simplification >= 2) => result = <<>>

\* --------------------------------------------------------------------
\* C8: every simplified path starts at the first point of the raw path it
\* came from and ends at that raw path's last point, whatever the stride.
SameEnds(sp, raw) == sp[1] = raw[1] /\ sp[Len(sp)] = raw[Len(raw)]

C8_EndpointsKept ==
    /\ pc \in {"filter", "done"}
       => /\ Len(mapped) = Len(paths)
          /\ \A k \in 1..Len(mapped) :
                Len(mapped[k]) > 1 => SameEnds(mapped[k], paths[k])
    /\ pc = "done"
       => \A r \in 1..Len(result) :
             \E k \in 1..Len(paths) : result[r] = mapped[k] /\ SameEnds(result[r], paths[k])

\* a returned path whose last point had to be appended
C8_Witness ==
    /\ pc = "done"
    /\ \E r \in 1..Len(result) : \E k \in 1..Len(paths) :
          /\ result[r] = mapped[k]
          /\ simplification \div 2 > 1
          /\ (Len(paths[k]) - 1) % (simplification \div 2) # 0
          /\ Len(result[r]) > 2

\* --------------------------------------------------------------------
\* C9: with stride = max(1, floor(factor)) the simplified form of a raw path
\* of n points is the raw points at indices 0, stride, 2*stride, ... below n,
\* followed by the point at n-1 exactly when n-1 is no multiple of stride;
\* 21 points with factor 2.0 give the 11 points at 0, 2, ..., 20.  (A kept
\* path of one point is mapped to the empty list, which the filter drops as
\* it would drop the one point: the returned PathSet is the same.)
ClaimedStride == IF simplification < 2 THEN 1 ELSE simplification \div 2

\* the indices 0, stride, ... below n, then n - 1 unless already there
ClaimedIndices(n, stride) ==
    LET count == (n + stride - 1) \div stride
        multiples == [j \in 1..count |-> (j - 1) * stride]
    IN  IF (n - 1) % stride # 0 THEN Append(multiples, n - 1) ELSE multiples

ClaimedSimple(raw) ==
    LET idxs == ClaimedIndices(Len(raw), ClaimedStride)
    IN  [j \in 1..Len(idxs) |-> raw[idxs[j] + 1]]

C9_DecimatedForm ==
    /\ pc \in {"filter", "done"}
       => \A k \in 1..Len(paths) :
             /\ Len(paths[k]) >= 2 => mapped[k] = ClaimedSimple(paths[k])
             /\ (Len(paths[k]) = 21 /\ simplification = 4)
                => /\ Len(mapped[k]) = 11
                   /\ \A j \in 1..11 : mapped[k][j] = paths[k][2 * (j - 1) + 1]
    /\ pc = "done"
       => result = SelectSeq([k \in 1..Len(paths) |-> ClaimedSimple(paths[k])],
                             longEnough)

\* Scenario D: a raw path of 21 points, factor 2.0, 11 points returned
C9_Witness ==
    /\ pc = "done"
    /\ simplification = 4
    /\ Len(paths) = 1 /\ Len(paths[1]) = 21
    /\ Len(result) = 1 /\ Len(result[1]) = 11

\* --------------------------------------------------------------------
\* C10: a raw path is kept only if it has more than minPathLength points:
\* paths holds exactly the raw paths longer than minPathLength, unchanged and
\* in order, every returned path is made of points of one such raw path, and
\* no point of a dropped raw path is in any returned path.
C10_LengthFilter ==
    LET longer(p) == 2 * Len(p) > minPathLength
    IN  /\ paths = SelectSeq(rawPaths, longer)
        /\ pc = "done"
           => /\ \A r \in 1..Len(result) :
                    \E k \in 1..Len(rawPaths) :
                       /\ longer(rawPaths[k])
                       /\ PointsOf(result[r]) \subseteq PointsOf(rawPaths[k])
              /\ \A k \in 1..Len(rawPaths) :
                    ~longer(rawPaths[k])
                    => \A r \in 1..Len(result) :
                          PointsOf(result[r]) \cap PointsOf(rawPaths[k]) = {}

\* a raw path of exactly minPathLength points was dropped, a longer one kept
C10_Witness ==
    /\ pc = "done"
    /\ minPathLength >= 4
    /\ \E k \in 1..Len(rawPaths) : 2 * Len(rawPaths[k]) = minPathLength
    /\ Len(result) >= 1
    /\ Len(paths) < Len(rawPaths)
\* --------------------------------------------------------------------
\* C11: every path vectoriseEdges returns has at least 2 points, for every
\* mask, stride and minPathLength: a kept raw path of a single point (an
\* isolated pixel, minPathLength = 0) is dropped from the result, and no
\* empty path is returned.
C11_AtLeastTwoPoints ==
    /\ \A r \in 1..Len(result) : Len(result[r]) >= 2
    /\ pc = "done"
       => \A k \in 1..Len(paths) :
             Len(paths[k]) = 1
             => \A r \in 1..Len(result) : paths[k][1] \notin PointsOf(result[r])

\* an isolated pixel was traced and kept by the length filter, and is not
\* in the result, which holds another path
C11_Witness ==
    /\ pc = "done"
    /\ minPathLength <= 0
    /\ \E k \in 1..Len(paths) : Len(paths[k]) = 1
    /\ Len(result) >= 1
    /\ Len(result) < Len(paths)

\* --------------------------------------------------------------------
\* C12: the returned paths are in the row-major order (y first, then x) of
\* their first points, which are first points of raw paths in the order the
\* walks started; dropping short paths does not reorder the others.
RawIndexOf(p) == CHOOSE k \in 1..Len(rawPaths) : rawPaths[k][1] = p

C12_RowMajorOrder ==
    pc = "done"
    => /\ \A r \in 1..Len(result) :
             \E k \in 1..Len(rawPaths) : rawPaths[k][1] = result[r][1]
       /\ \A r1, r2 \in 1..Len(result) :
             r1 < r2
             => /\ RowMajorBefore(result[r1][1], result[r2][1])
                /\ RawIndexOf(result[r1][1]) < RawIndexOf(result[r2][1])

\* two returned paths with a dropped raw path between them
C12_Witness ==
    /\ pc = "done"
    /\ Len(result) = 2
    /\ \E k \in 1..Len(rawPaths) :
          /\ RawIndexOf(result[1][1]) < k
          /\ k < RawIndexOf(result[2][1])

\* the first returned path starts to the right of the second
C12_WitnessRightFirst ==
    /\ pc = "done"
    /\ Len(result) = 2
    /\ result[1][1][1] > result[2][1][1]
\* --------------------------------------------------------------------
\* C13: the pipeline is deterministic and holds no state between calls: two
\* invocations with the same pixel buffer, dimensions and four parameters
\* return the same PathSet (same paths, same order, same points), whatever
\* was invoked before or in between.
C13_Deterministic ==
    /\ \A a, b \in 1..Len(calls) :
          calls[a][1] = calls[b][1] => calls[a][2] = calls[b][2]
    /\ pc = "done"
       => \A a \in 1..Len(calls) : calls[a][1] = CallInput => calls[a][2] = result

\* the third call repeats the first, with a call on another input that
\* returned another PathSet in between, and returns a non-empty PathSet
C13_Witness ==
    /\ pc = "done"
    /\ Len(calls) = 2
    /\ calls[1][1] = CallInput
    /\ calls[2][1] # CallInput
    /\ calls[2][2] # result
    /\ calls[2][2] # <<>>
    /\ result # <<>>
\* --------------------------------------------------------------------
\* C14: for a fixed thinned field the set of pixels seeded STRONG before
\* propagation (thinned magnitude >= high) does not grow with high: for
\* high1 <= high2 the seeds for high2 are among the seeds for high1.  The
\* seeds of the call's own high are the pixels pushed and marked STRONG.
SeedHighs == {0, 1, 50, 100, 150, 180, 255, 256, 600, 1020, 1021}

SeedSet(f, high) == SeqRange(seedStack(f, high, width * height))

StrongSet == {i \in DOMAIN traceMap : traceMap[i] = STRONG}

C14_SeedsMonotone ==
    /\ pc = "classify"
       => \A h1, h2 \in SeedHighs \cup {highThreshold} :
             h1 <= h2 => SeedSet(nms, h2) \subseteq SeedSet(nms, h1)
    /\ pc = "propagate"
       => /\ SeedSet(nms, highThreshold) \subseteq StrongSet
          /\ \A h \in SeedHighs :
                h >= highThreshold => SeedSet(nms, h) \subseteq StrongSet

\* a thinned field on which raising high removes some seeds and keeps others
C14_Witness ==
    /\ pc = "propagate"
    /\ stack = seedStack(nms, highThreshold, width * height)
    /\ \E h1, h2 \in SeedHighs :
          /\ h1 < h2
          /\ h1 = highThreshold
          /\ SeedSet(nms, h2) # {}
          /\ SeedSet(nms, h2) # SeedSet(nms, h1)
          /\ SeedSet(nms, h1) # 0..(width * height - 1)
\* --------------------------------------------------------------------
\* C15: for an image of uniform intensity (every pixel of the same gray
\* value, any value 0..255) and thresholds 0 < low <= high the gradient
\* magnitude is 0 at every pixel, the edge mask is empty and the PathSet is
\* empty.
UniformIntensity ==
    \A i, j \in 0..(width * height - 1) : Luma(data[i]) = Luma(data[j])

NoEdgePixel == \A i \in 0..(width * height - 1) : edgeData[i][1] # 255

C15_UniformNoEdges ==
    (UniformIntensity /\ 0 < lowThreshold /\ lowThreshold <= highThreshold)
    => /\ pc \notin {"gray", "blur", "gradient"} => AllZero(magnitudes)
       /\ pc \notin {"gray", "blur", "gradient", "nms", "classify", "propagate"}
          => NoEdgePixel
       /\ pc = "done" => result = <<>>

\* Scenario A as written: an all-black image has zero magnitude everywhere,
\* an empty mask and an empty PathSet
C15_BlackNoEdges ==
    ((\A i \in 0..(width * height - 1) : Luma(data[i]) = 0)
     /\ 0 < lowThreshold /\ lowThreshold <= highThreshold)
    => /\ pc \notin {"gray", "blur", "gradient"} => AllZero(magnitudes)
       /\ pc \notin {"gray", "blur", "gradient", "nms", "classify", "propagate"}
          => NoEdgePixel
       /\ pc = "done" => result = <<>>
\* --------------------------------------------------------------------
\* C16: for the 10x10 step image with low = 10 and high = 50 the STRONG
\* pixels are the pixels with x in {4, 5} outside the border rows, and with
\* minPathLength = 0 vectoriseEdges returns at least one path all of whose
\* points have x in {4, 5}.
ScenarioB ==
    /\ width = 10 /\ height = 10 /\ data = StepImage
    /\ lowThreshold = 10 /\ highThreshold = 50

StepLine == {i \in 0..99 : XOf(i, 10) \in {4, 5} /\ YOf(i, 10) \in 1..8}

C16_StepLine ==
    ScenarioB
    => /\ pc = "canny_done" => StrongSet = StepLine
       /\ (pc = "done" /\ minPathLength = 0)
          => \E r \in 1..Len(result) :
                \A k \in 1..Len(result[r]) : result[r][k][1] \in {4, 5}

\* --------------------------------------------------------------------
\* C17: for the same image with low = 200 and any high >= 200 no pixel's
\* thinned magnitude reaches the thresholds: no pixel is WEAK or STRONG, the
\* edge mask is empty and the PathSet is empty.
ScenarioC ==
    /\ width = 10 /\ height = 10 /\ data = StepImage
    /\ lowThreshold = 200 /\ highThreshold >= 200

C17_StepBelowThreshold ==
    ScenarioC
    => /\ pc = "propagate" => \A i \in DOMAIN traceMap : traceMap[i] = NONE
       /\ pc = "canny_done" => NoEdgePixel
       /\ pc = "done" => result = <<>>
\* --------------------------------------------------------------------
\* C18: interior-only border policy: the blurred field, the gradient
\* magnitude, the gradient direction and the thinned field are 0 at every
\* pixel of row 0, row H-1, column 0 and column W-1 (and at every index past
\* W*H), for every input; each interior blurred value is the
\* [1,2,1,2,4,2,1,2,1]/16 weighted sum of the 3x3 input neighbourhood.
WeightedSum(f, i, w) ==
    f[i - w - 1] + 2 * f[i - w] + f[i - w + 1]
    + 2 * f[i - 1] + 4 * f[i] + 2 * f[i + 1]
    + f[i + w - 1] + 2 * f[i + w] + f[i + w + 1]

C18_InteriorOnly ==
    /\ pc \notin {"gray", "blur"}
       => \A i \in DOMAIN blurred :
             IF i < width * height /\ ~Border(i, width, height)
             THEN blurred[i] = WeightedSum(gray, i, width)
             ELSE blurred[i] = 0
    /\ pc \notin {"gray", "blur", "gradient"}
       => \A i \in 0..(width * height - 1) :
             Border(i, width, height)
             => magnitudes[i] = 0 /\ directions[i] = <<0, 0>>
    /\ pc \notin {"gray", "blur", "gradient", "nms"}
       => \A i \in 0..(width * height - 1) :
             Border(i, width, height) => nms[i] = 0

\* all four fields are computed for an image with a white border pixel and
\* non-zero blurred, magnitude and thinned values in the interior
C18_Witness ==
    /\ pc = "classify"
    /\ width >= 3 /\ height >= 3
    /\ \E i \in 0..(width * height - 1) : Border(i, width, height) /\ gray[i] = 255
    /\ \E i \in 0..(width * height - 1) :
          /\ ~Border(i, width, height)
          /\ blurred[i] # 0 /\ blurred[i] # kSum * gray[i]
          /\ magnitudes[i] # 0 /\ nms[i] # 0
\* --------------------------------------------------------------------
\* C19: toGrayscale ignores alpha: two invocations on RGBA buffers that
\* differ only in their alpha bytes (same dimensions and parameters) have the
\* same grayscale field, the same edge mask and the same PathSet; each gray
\* value is an integer 0..255 nearest to 0.299 R + 0.587 G + 0.114 B.
SameButAlpha(in1, in2) ==
    /\ in1[1] = in2[1] /\ in1[2] = in2[2]
    /\ in1[4] = in2[4] /\ in1[5] = in2[5] /\ in1[6] = in2[6] /\ in1[7] = in2[7]
    /\ WithAlpha(in1[3], 255) = WithAlpha(in2[3], 255)

NearestToLuma(v, px) ==
    /\ v \in 0..255
    /\ Abs(1000 * v - (299 * px[1] + 587 * px[2] + 114 * px[3])) <= 500

C19_AlphaIgnored ==
    /\ pc # "gray"
       => /\ DOMAIN gray = DOMAIN data
          /\ \A i \in DOMAIN data : NearestToLuma(gray[i], data[i])
    /\ \A a, b \in 1..Len(calls) :
          SameButAlpha(calls[a][1], calls[b][1])
          => /\ calls[a][2] = calls[b][2]
             /\ calls[a][3] = calls[b][3]
             /\ calls[a][4] = calls[b][4]
    /\ pc = "done"
       => \A a \in 1..Len(calls) :
             SameButAlpha(calls[a][1], CallInput)
             => /\ calls[a][2] = result
                /\ calls[a][3] = gray
                /\ calls[a][4] = edgeData

\* a buffer of several colours and alpha values was converted (red to 76,
\* green to 150, the ties <<0, 36, 12>> to 22 and <<0, 12, 4>> to 8), then
\* two buffers that differ in alpha only returned the same non-empty PathSet
C19_Witness ==
    /\ pc = "done"
    /\ Len(calls) = 2
    /\ calls[1][1][3] = Palette(12)
    /\ calls[1][3][0] = 76 /\ calls[1][3][1] = 150
    /\ calls[1][3][2] = 22 /\ calls[1][3][3] = 8
    /\ SameButAlpha(calls[2][1], CallInput)
    /\ calls[2][1][3] # data
    /\ calls[2][2] = result
    /\ result # <<>>
\* --------------------------------------------------------------------
\* C20: out-of-range vectoriser parameters are clamped, never rejected: the
\* call returns, and returns the PathSet it returns for the factor
\* max(1, floor(simplification)) and the length max(0, floor(minPathLength)),
\* so a factor below 1 (0 and negatives too) acts as 1, a fractional factor
\* as its floor, and a negative or fractional minPathLength as its floor
\* raised to 0.
ClampedFactor == 2 * Max(1, simplification \div 2)

ClampedMinPathLength == 2 * Max(0, minPathLength \div 2)

\* what the map and the two filters return for the raw paths of the walks
ResultFor(raws, simp, minLen) ==
    LET keep(p) == keepPath(p, minLen)
        kept == SelectSeq(raws, keep)
    IN  SelectSeq([k \in 1..Len(kept) |-> simplePath(kept[k], strideOf(simp))],
                  longEnough)

C20_ParametersClamped ==
    pc = "done" => result = ResultFor(rawPaths, ClampedFactor, ClampedMinPathLength)

\* factor 1.5 and minPathLength 1.5: a raw path of 2 points is kept and
\* returned, a raw path of 1 point dropped
C20_Witness ==
    /\ pc = "done"
    /\ simplification = 3
    /\ minPathLength = 3
    /\ \E k \in 1..Len(rawPaths) : Len(rawPaths[k]) = 1
    /\ \E r \in 1..Len(result) : Len(result[r]) = 2
    /\ \E r \in 1..Len(result) : Len(result[r]) >= 3

\* a negative factor and a negative minPathLength
C20_WitnessNegative ==
    /\ pc = "done"
    /\ simplification < 0
    /\ minPathLength < 0
    /\ \E r \in 1..Len(result) : Len(result[r]) >= 4
    /\ Len(paths) > Len(result)
\* --------------------------------------------------------------------
\* C21: the pipeline never writes to its inputs and its stages do not alias:
\* no step changes imageData.data, no step of vectoriseEdges changes edgeData,
\* and each of the gray, blurred, magnitude, direction, thinned, traceMap and
\* edge buffers changes only in the step that computes it.
C21_NoWritesNoAliasing ==
    [][/\ data' = data
       /\ gray' # gray => pc = "gray"
       /\ blurred' # blurred => pc = "blur"
       /\ (magnitudes' # magnitudes \/ directions' # directions) => pc = "gradient"
       /\ nms' # nms => pc = "nms"
       /\ traceMap' # traceMap => pc \in {"classify", "propagate"}
       /\ edgeData' # edgeData => (pc = "propagate" /\ pc' = "canny_done")
       /\ pc \in {"canny_done", "scan", "pixels", "walk", "filter", "done"}
          => edgeData' = edgeData]_vars

\* a whole run in which every stage wrote a non-zero field of its own and a
\* path was returned
C21_Witness ==
    /\ pc = "done"
    /\ result # <<>>
    /\ \E i \in DOMAIN gray : gray[i] # 0 /\ blurred[i] # 0 /\ blurred[i] # kSum * gray[i]
    /\ \E i \in DOMAIN nms : nms[i] # 0 /\ magnitudes[i] = nms[i] /\ traceMap[i] = STRONG
    /\ \E i \in DOMAIN magnitudes : magnitudes[i] # nms[i]
    /\ \E i \in DOMAIN data : data[i] # edgeData[i]
\* --------------------------------------------------------------------
\* C22: thinning writes, for every interior pixel, its magnitude if that is
\* >= the magnitudes of both neighbours along its gradient direction and 0
\* otherwise; the direction normalised to [0, 180] selects the pair
\* (x+1,y)/(x-1,y) for [0, 22.5) and [157.5, 180], (x+1,y+1)/(x-1,y-1) for
\* [22.5, 67.5), (x,y+1)/(x,y-1) for [67.5, 112.5) and (x+1,y-1)/(x-1,y+1)
\* for [112.5, 157.5); every direction is in exactly one sector.
ClaimedSector(dir) ==
    LET sy == IF dir[1] < 0 THEN -dir[1] ELSE dir[1]
        sx == IF dir[1] < 0 THEN -dir[2] ELSE dir[2]
        ax == Abs(sx)
    IN  IF (sy + ax) * (sy + ax) < 2 * sx * sx \/ sy = 0 THEN 0
        ELSE IF sy > ax /\ (sy - ax) * (sy - ax) > 2 * sx * sx THEN 90
        ELSE IF sx > 0 THEN 45
        ELSE 135

ClaimedPair(i, w, sector) ==
    CASE sector = 0   -> <<i + 1, i - 1>>
      [] sector = 45  -> <<i + w + 1, i - w - 1>>
      [] sector = 90  -> <<i + w, i - w>>
      [] sector = 135 -> <<i - w + 1, i + w - 1>>

ClaimedThinned(i) ==
    LET pair == ClaimedPair(i, width, ClaimedSector(directions[i]))
    IN  IF magnitudes[i] >= magnitudes[pair[1]] /\ magnitudes[i] >= magnitudes[pair[2]]
        THEN magnitudes[i]
        ELSE 0

\* the gradient points exactly west: atan2(0, negative)
PointsWest(dir) == dir[1] = 0 /\ dir[2] < 0

C22_ThinningBySector ==
    pc \notin {"gray", "blur", "gradient", "nms"}
    => \A i \in 0..(width * height - 1) :
          ~Border(i, width, height) => nms[i] = ClaimedThinned(i)

\* the same for every interior pixel whose gradient does not point exactly
\* west
C22_ExceptWest ==
    pc \notin {"gray", "blur", "gradient", "nms"}
    => \A i \in 0..(width * height - 1) :
          (~Border(i, width, height) /\ ~PointsWest(directions[i]))
          => nms[i] = ClaimedThinned(i)
\* --------------------------------------------------------------------
\* C23: the final STRONG set of the hysteresis propagation does not depend
\* on the order in which the worklist is processed: whichever entry each
\* iteration takes, the loop ends with the traceMap, and the edge mask, that
\* the code's last-in-first-out order ends with.
LifoTraceMap ==
    propagation([i \in DOMAIN nms |-> classify(nms[i], lowThreshold, highThreshold)],
                seedStack(nms, highThreshold, width * height), width, height)

C23_OrderIndependent ==
    /\ (pc = "propagate" /\ Len(stack) = 0) => traceMap = LifoTraceMap
    /\ pc = "canny_done"
       => /\ traceMap = LifoTraceMap
          /\ \A i \in DOMAIN traceMap :
                (edgeData[i][1] = 255) <=> (LifoTraceMap[i] = STRONG)

\* a run that took an entry other than the last one can have ended: several
\* seeds, and WEAK pixels promoted
C23_Witness ==
    /\ pc = "canny_done"
    /\ Len(seedStack(nms, highThreshold, width * height)) >= 2
    /\ Cardinality({i \in DOMAIN nms :
                       traceMap[i] = STRONG /\ ~AtLeast(nms[i], highThreshold)}) >= 2
\* --------------------------------------------------------------------
\* C24: the greedy walk does not explore alternative branches from a node
\* once it has moved on: a pixel the walk has backtracked to (the top of the
\* stack is no longer the last point of the path) has no edge neighbour left
\* for the walk to take, so a branch left unvisited is only reached by a
\* later walk and a component with a branch point is split into several raw
\* paths.
C24_NoAlternativeBranches ==
    (/\ pc = "walk"
     /\ Len(walkStack) > 0
     /\ walkStack[Len(walkStack)] # path[Len(path)])
    => Len(openNeighbours(walkStack[Len(walkStack)], visited, edgeData,
                          width, height)) = 0

\* the second half of C24: some component is returned as two or more raw
\* paths (never the case: the negation is an invariant)
C24_ComponentSplit ==
    /\ pc = "done"
    /\ \E k, l \in 1..Len(rawPaths) :
          k # l /\ rawPaths[l][1] \in ComponentOf(rawPaths[k][1])

C24_NeverSplit == ~C24_ComponentSplit
\* --------------------------------------------------------------------
\* C25: each step of the greedy walk looks at the top of the stack and takes
\* the first of its 8 neighbours, in the order dy = -1, 0, 1 (outer) and
\* dx = -1, 0, 1 (inner), that is inside the image, an edge pixel and not
\* visited: it is marked visited, appended to the path and pushed.  If there
\* is none the stack is popped and nothing else changes.  The walk ends
\* exactly when the stack is empty.
Candidates(curr) ==
    {o \in (-1..1) \X (-1..1) :
        /\ o # <<0, 0>>
        /\ curr[1] + o[2] >= 0 /\ curr[1] + o[2] < width
        /\ curr[2] + o[1] >= 0 /\ curr[2] + o[1] < height
        /\ IsEdge(edgeData, curr[1] + o[2], curr[2] + o[1], width)
        /\ Key(curr[1] + o[2], curr[2] + o[1]) \notin visited}

\* dy first, then dx
ScannedBefore(o, q) == o[1] < q[1] \/ (o[1] = q[1] /\ o[2] <= q[2])

C25_Step ==
    pc = "walk"
    => IF Len(walkStack) = 0
       THEN pc' # "walk"
       ELSE /\ pc' = "walk"
            /\ LET top == walkStack[Len(walkStack)]
                   cands == Candidates(top)
               IN  IF cands # {}
                   THEN LET o == CHOOSE c \in cands :
                                    \A q \in cands : ScannedBefore(c, q)
                            nxt == Pt(top[1] + o[2], top[2] + o[1])
                        IN  /\ visited' = visited \cup {Key(nxt[1], nxt[2])}
                            /\ path' = Append(path, nxt)
                            /\ walkStack' = Append(walkStack, nxt)
                   ELSE /\ walkStack' = SubSeq(walkStack, 1, Len(walkStack) - 1)
                        /\ path' = path
                        /\ visited' = visited

C25_GreedyWalkStep == [][C25_Step]_vars

\* the walk has backtracked to a pixel with several neighbours left to take
C25_Witness ==
    /\ pc = "walk"
    /\ Len(walkStack) > 0
    /\ Len(walkStack) < Len(path)
    /\ Cardinality(Candidates(walkStack[Len(walkStack)])) >= 2
\* --------------------------------------------------------------------
\* C26: a new edit made through addToHistory discards every snapshot after
\* the cursor before appending: afterwards history is the old
\* history[0..historyIndex] followed by the new snapshot, historyIndex points
\* at that last entry, shapes is the new snapshot and redo has nothing to do;
\* undo and redo move the cursor by one at most and never change history.
Edits == {"clear", "delete", "update", "dragEnd", "add", "import"}

C26_Step ==
    /\ lastOp' \in Edits
       => /\ Len(history') = historyIndex + 2
          /\ \A k \in 1..(historyIndex + 1) : history'[k] = history[k]
          /\ historyIndex' = Len(history') - 1
          /\ shapes' = history'[Len(history')]
          /\ ~(historyIndex' < Len(history') - 1)
    /\ lastOp' = "undo"
       => /\ history' = history
          /\ historyIndex' \in {historyIndex, historyIndex - 1}
    /\ lastOp' = "redo"
       => /\ history' = history
          /\ historyIndex' \in {historyIndex, historyIndex + 1}

C26_EditTruncates == [][C26_Step]_vars

\* an edit has been made with the cursor not at the end: a snapshot that
\* could be redone is gone
C26_Witness ==
    /\ lastOp \in Edits
    /\ discarded >= 2
    /\ Len(history) = 2
    /\ shapes # <<>>
\* --------------------------------------------------------------------
\* C27: after any sequence of committed operations (an edit through
\* addToHistory, undo, redo) 0 <= historyIndex <= history.length - 1 and
\* shapes is history[historyIndex]: the cursor is always inside history,
\* every edit leaves shapes equal to the snapshot under the cursor, and undo
\* and redo keep them equal.  Undo at historyIndex 0 and redo at the last
\* index leave history, historyIndex and shapes unchanged.
AtCursor == shapes = elementAt(history, historyIndex)

C27_Step ==
    /\ historyIndex >= 0 /\ historyIndex <= Len(history) - 1
    /\ historyIndex' >= 0 /\ historyIndex' <= Len(history') - 1
    /\ lastOp' \in Edits => AtCursor'
    /\ (lastOp' \in {"undo", "redo"} /\ AtCursor) => AtCursor'
    /\ (lastOp' = "undo" /\ historyIndex = 0)
       => UNCHANGED <<history, historyIndex, shapes>>
    /\ (lastOp' = "redo" /\ historyIndex = Len(history) - 1)
       => UNCHANGED <<history, historyIndex, shapes>>

C27_CursorInHistory == [][C27_Step]_vars

\* undo has run down to the first snapshot after several edits, one of them
\* made after an undo
C27_Witness ==
    /\ lastOp = "undo"
    /\ historyIndex = 0
    /\ Len(history) = 3
    /\ discarded >= 1
    /\ AtCursor
\* --------------------------------------------------------------------
\* C28: both worklist loops terminate.  In the hysteresis propagation an
\* index is pushed only in the step that turns it from WEAK to STRONG (or as
\* a seed, STRONG from the start), a STRONG pixel stays STRONG, so no index
\* is pushed twice, and every iteration lowers 2 * (WEAK pixels) + (stack
\* length).  In the greedy walk no pixel is pushed twice (the path, which
\* records the pushes, has no repeated point, and each of its points is an
\* edge pixel next to an earlier one), every iteration lowers 2 * (unvisited edge pixels) +
\* (stack length), and the walk of a component of n pixels is left with an
\* empty stack after at most 2n pushes and pops.
NoRepeat(sq) == \A k, l \in 1..Len(sq) : sq[k] = sq[l] => k = l

WeakCount(tm) == Cardinality({i \in DOMAIN tm : tm[i] = WEAK})

UnvisitedCount(vis) == Cardinality({q \in EdgePoints : Key(q[1], q[2]) \notin vis})

\* pushes and pops of the walk in progress, the first push included
WalkSteps == 2 * Len(path) - Len(walkStack)

C28_Step ==
    /\ pc = "propagate"
       => /\ NoRepeat(stack)
          /\ \A k \in 1..Len(stack) : traceMap[stack[k]] = STRONG
    /\ (pc = "propagate" /\ pc' = "propagate")
       => /\ 2 * WeakCount(traceMap') + Len(stack') < 2 * WeakCount(traceMap) + Len(stack)
          /\ \A i \in DOMAIN traceMap : traceMap[i] = STRONG => traceMap'[i] = STRONG
          /\ SubSeq(stack', 1, Len(stack) - 1) = SubSeq(stack, 1, Len(stack) - 1)
          /\ \A k \in Len(stack)..Len(stack') :
                traceMap[stack'[k]] = WEAK /\ traceMap'[stack'[k]] = STRONG
    /\ pc = "walk"
       => /\ NoRepeat(path)
          /\ NoRepeat(walkStack)
          /\ PointsOf(walkStack) \subseteq PointsOf(path)
          /\ \A k \in 1..Len(path) :
                /\ IsEdge(edgeData, path[k][1], path[k][2], width)
                /\ k > 1 => \E j \in 1..(k - 1) : Chebyshev(path[j], path[k]) <= 1
    /\ (pc = "walk" /\ pc' = "walk")
       => 2 * UnvisitedCount(visited') + Len(walkStack')
             < 2 * UnvisitedCount(visited) + Len(walkStack)
    /\ (pc = "walk" /\ pc' # "walk")
       => /\ Len(walkStack) = 0
          /\ WalkSteps <= 2 * Cardinality(ComponentOf(path[1]))

C28_LoopsTerminate == [][C28_Step]_vars

\* a walk that backtracked has emptied its stack, on an edge mask that holds
\* a pixel promoted from WEAK
C28_Witness ==
    /\ pc = "walk"
    /\ Len(walkStack) = 0
    /\ Len(path) >= 3
    /\ \E i \in DOMAIN traceMap :
          traceMap[i] = STRONG /\ ~AtLeast(nms[i], highThreshold)
\* --------------------------------------------------------------------
\* C29: before the length filter the raw paths partition the edge pixels:
\* when every walk has ended, each pixel whose red channel is 255 occurs in
\* exactly one raw path and exactly once in it, and every point of a raw
\* path is an edge pixel inside the image.
Occurrences(q) ==
    Cardinality({kl \in {<<k, l>> \in (1..Len(rawPaths)) \X (1..(width * height)) :
                              l <= Len(rawPaths[k])} :
                    rawPaths[kl[1]][kl[2]] = q})

C29_RawPathsPartition ==
    pc \in {"filter", "done"}
    => /\ \A x \in 0..(width - 1), y \in 0..(height - 1) :
             (y * width + x \in DOMAIN edgeData /\ edgeData[y * width + x][1] = 255)
             => Occurrences(<<x, y>>) = 1
       /\ \A k \in 1..Len(rawPaths) :
             /\ Len(rawPaths[k]) <= width * height
             /\ \A l \in 1..Len(rawPaths[k]) :
                   LET q == rawPaths[k][l]
                   IN  /\ q[1] >= 0 /\ q[1] < width
                       /\ q[2] >= 0 /\ q[2] < height
                       /\ q[2] * width + q[1] \in DOMAIN edgeData
                       /\ edgeData[q[2] * width + q[1]][1] = 255

\* several raw paths, one of them dropped by the length filter, and pixels
\* that are not edge pixels
C29_Witness ==
    /\ pc = "done"
    /\ Len(rawPaths) >= 2
    /\ Len(paths) < Len(rawPaths)
    /\ \E k \in 1..Len(rawPaths) : Len(rawPaths[k]) >= 3
    /\ Cardinality(EdgePoints) < width * height
\* --------------------------------------------------------------------
\* C30: every process() run traces the uploaded image: a run that follows
\* another on the same upload, with the same parameters, has read the same
\* pixels from the canvas and returns the same paths.
SameParameters(c) ==
    /\ c[1][4] = lowThreshold /\ c[1][5] = highThreshold
    /\ c[1][6] = simplification /\ c[1][7] = minPathLength

C30_RerunTracesUpload ==
    pc = "done"
    => \A k \in 1..Len(calls) :
          SameParameters(calls[k])
          => /\ data = calls[k][1][3]
             /\ result = calls[k][2]
====
